---- MODULE Spec2Model ----
(***************************************************************************)
(* Hardlink / symlink metadata mutations of the FUSE mount (package        *)
(* filesys): Dir.Link, Dir.Symlink and File.Readlink, the remote filer     *)
(* entry store they call and the local meta cache they mirror into.        *)
(*                                                                         *)
(* In-memory filer_pb.Entry and filer_pb.FuseAttributes values are heap    *)
(* objects reached through pointers, because Link copies the Attributes    *)
(* pointer of the source entry into the new entry and hands the request's  *)
(* entry pointer to the new file node.                                     *)
(***************************************************************************)
EXTENDS Integers, Sequences, FiniteSets, TLC

\* ----------------------------------------------------------------- bounds
\* Requests (Link, Symlink, Readlink) started in one run when they are
\* served one at a time, and when two handlers serve them concurrently.
MaxOps == 4
MaxConcOps == 2
\* Owner / group identifiers are 0..MaxId.
MaxId == 2

\* ------------------------------------------------------ program constants
HARD_LINK_MARKER == 1
\* util.RandomBytes(16)
RandomLen == 16
\* dir.wfs.signature, the identity of this mount
Signature == 7

Procs == {1, 2}
\* full paths as (directory, name), in the order new names are taken
PathSeq == << <<"/d", "a">>, <<"/d", "b">>, <<"/e", "a">>, <<"/e", "b">> >>
Paths == {PathSeq[n] : n \in DOMAIN PathSeq}
NoPath == <<"", "">>
\* the file that exists when the mount starts
FirstPath == PathSeq[1]
Ids == 0..MaxId
\* req.Target, req.Uid, req.Gid of a Symlink request
SymReqs == {[Target |-> "", Uid |-> 0, Gid |-> MaxId],
            [Target |-> "/target/path", Uid |-> MaxId, Gid |-> 0]}

\* os.FileMode as the set of its bit positions
ModePerm == 0..8
ModeSymlink == {27}
Mode0644 == {2, 5, 7, 8}
Umasks == {{}, {1, 4}}

VARIABLES
    sched,      \* the handlers serving requests and the requests they may start
    option,     \* dir.wfs.option: ReadOnly, Umask
    nodes,      \* file nodes: full path -> pointer to the node's entry (0 = nil)
    entries,    \* heap of *filer_pb.Entry
    attrs,      \* heap of *filer_pb.FuseAttributes
    remote,     \* the filer's entry store: (directory, name) -> stored entry
    cache,      \* wfs.metaCache: full path -> filer.Entry
    pc,         \* position of each request handler
    loc,        \* locals, result and call counts of each handler's request
    inflight,   \* remote calls sent and not yet answered, by handler
    opCount,    \* requests started so far (also time.Now())
    randCount,  \* values util.RandomBytes has returned so far
    linkCalls,  \* HardLinkId -> Link calls that stamped a counter of that group
    written,    \* full paths Link or Symlink wrote into the meta cache
    symlinked   \* full path -> req.Target of the Symlink that returned its node

vars == <<sched, option, nodes, entries, attrs, remote, cache, pc, loc, inflight,
          opCount, randCount, linkCalls, written, symlinked>>

\* ------------------------------------------------------------ heap values
NoHardLink == <<>>

\* append(util.RandomBytes(16), HARD_LINK_MARKER)
NewHardLinkId(r) == Append([k \in 1..RandomLen |-> r], HARD_LINK_MARKER)

\* the filer_pb.Entry a pointer denotes, as it is marshalled into a request
PbOf(e) ==
    [Name            |-> entries[e].Name,
     IsDirectory     |-> entries[e].IsDirectory,
     Attributes      |-> attrs[entries[e].Attributes],
     Chunks          |-> entries[e].Chunks,
     Extended        |-> entries[e].Extended,
     HardLinkId      |-> entries[e].HardLinkId,
     HardLinkCounter |-> entries[e].HardLinkCounter]

\* filer.FromPbEntry(dir, entry): the filer.Entry the meta cache stores
FromPbEntry(dir, e) ==
    [FullPath        |-> <<dir, entries[e].Name>>,
     Attr            |-> [Mtime         |-> attrs[entries[e].Attributes].Mtime,
                          Crtime        |-> attrs[entries[e].Attributes].Crtime,
                          Mode          |-> attrs[entries[e].Attributes].FileMode,
                          Uid           |-> attrs[entries[e].Attributes].Uid,
                          Gid           |-> attrs[entries[e].Attributes].Gid,
                          SymlinkTarget |-> attrs[entries[e].Attributes].SymlinkTarget],
     Chunks          |-> entries[e].Chunks,
     Extended        |-> entries[e].Extended,
     HardLinkId      |-> entries[e].HardLinkId,
     HardLinkCounter |-> entries[e].HardLinkCounter]

\* the filer's stored entry, as the cache would hold it (field for field)
AsCached(path, m) ==
    [FullPath        |-> <<path[1], m.Name>>,
     Attr            |-> [Mtime         |-> m.Attributes.Mtime,
                          Crtime        |-> m.Attributes.Crtime,
                          Mode          |-> m.Attributes.FileMode,
                          Uid           |-> m.Attributes.Uid,
                          Gid           |-> m.Attributes.Gid,
                          SymlinkTarget |-> m.Attributes.SymlinkTarget],
     Chunks          |-> m.Chunks,
     Extended        |-> m.Extended,
     HardLinkId      |-> m.HardLinkId,
     HardLinkCounter |-> m.HardLinkCounter]

\* -------------------------------------------------- identifier translator
\* wfs.option.UidGidMapper: a reversible mapping between the local and the
\* filer's identifier space, one for owners and one for groups.
UidLocalToFiler(u) == (u + 1) % (MaxId + 1)
\* UidFilerToLocal as it would be if the inward mapping undid nothing
UidFilerToLocalKeeping(u) == u

UidFilerToLocal(u) == (u + MaxId) % (MaxId + 1)
GidLocalToFiler(g) == (g + 2) % (MaxId + 1)
GidFilerToLocal(g) == (g + 2 * MaxId) % (MaxId + 1)

\* wfs.mapPbIdFromLocalToFiler(entry): rewrites the entry's Attributes in place
mapPbIdFromLocalToFiler(h, e) ==
    [h EXCEPT ![entries[e].Attributes] =
        [@ EXCEPT !.Uid = UidLocalToFiler(@), !.Gid = GidLocalToFiler(@)]]

\* wfs.mapPbIdFromFilerToLocal(entry)
mapPbIdFromFilerToLocal(h, e) ==
    [h EXCEPT ![entries[e].Attributes] =
        [@ EXCEPT !.Uid = UidFilerToLocal(@), !.Gid = GidFilerToLocal(@)]]

\* ------------------------------------------------------- request handlers
IdleLoc ==
    [op |-> "none", k |-> 0, srcPath |-> NoPath, newPath |-> NoPath,
     target |-> "", oldEntry |-> 0, counter |-> 0, reqEntry |-> 0,
     idsBefore |-> <<0, 0>>,
     err |-> "nil", retNode |-> 0, retTarget |-> "",
     remoteCalls |-> 0, cacheWrites |-> 0, acked |-> {}]

SetLoc(i, r) == [loc EXCEPT ![i] = r]
SetPc(i, p) == [pc EXCEPT ![i] = p]

\* a handler returns: its result stays in loc until its next request
Return(i, r) ==
    /\ loc' = SetLoc(i, r)
    /\ pc' = SetPc(i, "idle")

CanStart(i) ==
    /\ i \in sched.handlers
    /\ pc[i] = "idle"
    /\ opCount < sched.budget

\* pointers of the objects request number k allocates
ReqEntryOf(k) == 2 * k
LoadedEntryOf(k) == 2 * k - 1

Alloc(h, p, v) == [x \in DOMAIN h \cup {p} |-> IF x = p THEN v ELSE h[x]]

\* The entries still referenced when handler i starts a request (by a file
\* node or by another handler's request), and their attributes: the rest is
\* garbage.
LiveEntries(i) ==
    ({nodes[p] : p \in DOMAIN nodes}
        \cup {loc[j].oldEntry : j \in Procs \ {i}}
        \cup {loc[j].reqEntry : j \in Procs \ {i}}
        \cup {loc[j].retNode : j \in Procs \ {i}}) \cap DOMAIN entries

Collected(i) == [e \in LiveEntries(i) |-> entries[e]]
CollectedAttrs(i) ==
    [a \in {entries[e].Attributes : e \in LiveEntries(i)} |-> attrs[a]]

\* the (directory, name) a request may name: the first file, the name another
\* running request is creating, or the first name nobody has taken
Taken == DOMAIN remote \cup {loc[j].newPath : j \in {x \in Procs : pc[x] # "idle"}}
FreeIdx == {n \in DOMAIN PathSeq : PathSeq[n] \notin Taken}
NewPaths ==
    {FirstPath}
        \cup {loc[j].newPath : j \in {x \in Procs : pc[x] # "idle"}}
        \cup {PathSeq[n] : n \in {m \in FreeIdx : \A o \in FreeIdx : m <= o}}

\* filer_pb.CreateEntry / filer_pb.UpdateEntry: the request is marshalled
\* when it is sent
Send(i, kind, dir, e) ==
    inflight' = Alloc(inflight, i,
        [kind |-> kind, Directory |-> dir, Entry |-> PbOf(e),
         Signatures |-> <<Signature>>])

Answered(i) == [j \in DOMAIN inflight \ {i} |-> inflight[j]]

\* The filer serves the call in flight of handler i. CreateEntry fails when
\* the name exists, UpdateEntry when it does not; either can fail for want
\* of the filer (ok = FALSE).
FilerAccepts(i, ok) ==
    LET m == inflight[i]
        path == <<m.Directory, m.Entry.Name>>
    IN  /\ ok
        /\ IF m.kind = "create" THEN path \notin DOMAIN remote
                                ELSE path \in DOMAIN remote

FilerStore(i) ==
    LET m == inflight[i]
    IN  Alloc(remote, <<m.Directory, m.Entry.Name>>, m.Entry)

\* metaCache.InsertEntry / metaCache.UpdateEntry of
\* filer.FromPbEntry(dir, entry)
CacheWrite(i, dir, e) ==
    /\ cache' = Alloc(cache, <<dir, entries[e].Name>>, FromPbEntry(dir, e))
    /\ loc' = SetLoc(i, [loc[i] EXCEPT !.cacheWrites = @ + 1])
    /\ written' = written \cup {<<dir, entries[e].Name>>}

\* ReadOnlyMode as it would be if the handlers did not test the option
ReadOnlyModeUnchecked == FALSE

\* lines 27 and 112: dir.wfs.option.ReadOnly
ReadOnlyMode == option.ReadOnly

\* SymlinkFileMode as it would be with & in place of &^
SymlinkFileModeMasked == (ModePerm \cup ModeSymlink) \cap option.Umask

\* ------------------------------------------------------------ Dir.Symlink
\* line 126: (os.FileMode(0777) | os.ModeSymlink) &^ dir.wfs.option.Umask
SymlinkFileMode == (ModePerm \cup ModeSymlink) \ option.Umask

\* lines 110-133: read-only check, then the request's entry is built
SymlinkBegin(i) ==
    /\ CanStart(i)
    /\ \E path \in NewPaths, req \in SymReqs :
        LET k == opCount + 1
            e == ReqEntryOf(k)
            base == [IdleLoc EXCEPT !.op = "Symlink", !.k = k,
                                    !.newPath = path, !.target = req.Target]
        IN  /\ opCount' = k
            /\ IF ReadOnlyMode
               THEN /\ Return(i, [base EXCEPT !.err = "EPERM"])
                    /\ attrs' = CollectedAttrs(i)
                    /\ entries' = Collected(i)
               ELSE /\ attrs' = Alloc(CollectedAttrs(i), e,
                        [Mtime |-> k, Crtime |-> k,
                         FileMode |-> SymlinkFileMode,
                         Uid |-> req.Uid, Gid |-> req.Gid,
                         SymlinkTarget |-> req.Target])
                    /\ entries' = Alloc(Collected(i), e,
                        [Name |-> path[2], IsDirectory |-> FALSE,
                         Attributes |-> e, Chunks |-> <<>>,
                         Extended |-> <<>>, HardLinkId |-> NoHardLink,
                         HardLinkCounter |-> 0])
                    /\ loc' = SetLoc(i, [base EXCEPT !.reqEntry = e])
                    /\ pc' = SetPc(i, "SymMapOut")
    /\ UNCHANGED <<sched, option, nodes, remote, cache, inflight, randCount,
                   linkCalls, written, symlinked>>

\* line 137
SymlinkMapOut(i) ==
    /\ pc[i] = "SymMapOut"
    /\ attrs' = mapPbIdFromLocalToFiler(attrs, loc[i].reqEntry)
    /\ loc' = SetLoc(i, [loc[i] EXCEPT !.idsBefore =
            <<attrs[entries[loc[i].reqEntry].Attributes].Uid,
              attrs[entries[loc[i].reqEntry].Attributes].Gid>>])
    /\ pc' = SetPc(i, "SymCreate")
    /\ UNCHANGED <<sched, option, nodes, entries, remote, cache, inflight,
                   opCount, randCount, linkCalls, written, symlinked>>

\* line 140: the CreateEntry call leaves
SymlinkCreateSend(i) ==
    /\ pc[i] = "SymCreate"
    /\ Send(i, "create", loc[i].newPath[1], loc[i].reqEntry)
    /\ loc' = SetLoc(i, [loc[i] EXCEPT !.remoteCalls = @ + 1])
    /\ pc' = SetPc(i, "SymCreateWait")
    /\ UNCHANGED <<sched, option, nodes, entries, attrs, remote, cache, opCount,
                   randCount, linkCalls, written, symlinked>>

\* line 140: the CreateEntry call succeeded
SymlinkCreateOk(i) ==
    /\ pc[i] = "SymCreateWait"
    /\ FilerAccepts(i, TRUE)
    /\ remote' = FilerStore(i)
    /\ inflight' = Answered(i)
    /\ loc' = SetLoc(i, [loc[i] EXCEPT !.acked = @ \cup {loc[i].newPath}])
    /\ pc' = SetPc(i, "SymCacheInsert")
    /\ UNCHANGED <<sched, option, nodes, entries, attrs, cache, opCount,
                   randCount, linkCalls, written, symlinked>>

\* SymlinkCreateFail as it would be if a failed Symlink returned no node
SymlinkCreateFailNoNode(i) ==
    /\ pc[i] = "SymCreateWait"
    /\ \E ok \in BOOLEAN : ~FilerAccepts(i, ok)
    /\ inflight' = Answered(i)
    /\ attrs' = mapPbIdFromFilerToLocal(attrs, loc[i].reqEntry)
    /\ Return(i, [loc[i] EXCEPT !.err = "EIO"])
    /\ UNCHANGED <<sched, option, nodes, entries, remote, cache, opCount,
                   randCount, linkCalls, written, symlinked>>

\* lines 140-143 and 150-152: the CreateEntry call failed; the deferred
\* inward translation runs, and the node is built and returned with EIO
SymlinkCreateFail(i) ==
    /\ pc[i] = "SymCreateWait"
    /\ \E ok \in BOOLEAN : ~FilerAccepts(i, ok)
    /\ inflight' = Answered(i)
    /\ attrs' = mapPbIdFromFilerToLocal(attrs, loc[i].reqEntry)
    /\ Return(i, [loc[i] EXCEPT !.err = "EIO", !.retNode = loc[i].reqEntry])
    /\ UNCHANGED <<sched, option, nodes, entries, remote, cache, opCount,
                   randCount, linkCalls, written, symlinked>>

\* line 145
SymlinkCacheInsert(i) ==
    /\ pc[i] = "SymCacheInsert"
    /\ CacheWrite(i, loc[i].newPath[1], loc[i].reqEntry)
    /\ pc' = SetPc(i, "SymFinish")
    /\ UNCHANGED <<sched, option, nodes, entries, attrs, remote, inflight,
                   opCount, randCount, linkCalls, symlinked>>

\* lines 147-152: the callback returns nil, the deferred inward translation
\* runs, and the new file node is returned
SymlinkFinish(i) ==
    /\ pc[i] = "SymFinish"
    /\ attrs' = mapPbIdFromFilerToLocal(attrs, loc[i].reqEntry)
    /\ nodes' = Alloc(nodes, loc[i].newPath, loc[i].reqEntry)
    /\ symlinked' = Alloc(symlinked, loc[i].newPath, loc[i].target)
    /\ Return(i, [loc[i] EXCEPT !.retNode = loc[i].reqEntry])
    /\ UNCHANGED <<sched, option, entries, remote, cache, inflight, opCount,
                   randCount, linkCalls, written>>

\* -------------------------------------------------- File.maybeLoadEntry
\* What the lazy load of the node at path p can do: nothing when the entry
\* is resident; otherwise fail, find nothing, or load the cached entry.
LoadOutcomes(p) ==
    IF nodes[p] # 0 THEN {"resident"}
    ELSE {"error", "nil"} \cup (IF p \in DOMAIN cache THEN {"loaded"} ELSE {})

\* the filer_pb.Entry and FuseAttributes built from a cached filer.Entry
ToPbEntry(c, a) ==
    [Name |-> c.FullPath[2], IsDirectory |-> FALSE, Attributes |-> a,
     Chunks |-> c.Chunks, Extended |-> c.Extended,
     HardLinkId |-> c.HardLinkId, HardLinkCounter |-> c.HardLinkCounter]

ToPbAttributes(c) ==
    [Mtime |-> c.Attr.Mtime, Crtime |-> c.Attr.Crtime,
     FileMode |-> c.Attr.Mode, Uid |-> c.Attr.Uid, Gid |-> c.Attr.Gid,
     SymlinkTarget |-> c.Attr.SymlinkTarget]

\* the heap and the node after maybeLoadEntry of the node at p by request k
LoadInto(i, p, k, how) ==
    IF how = "loaded"
    THEN /\ entries' = Alloc(Collected(i), LoadedEntryOf(k),
                             ToPbEntry(cache[p], LoadedEntryOf(k)))
         /\ attrs' = Alloc(CollectedAttrs(i), LoadedEntryOf(k),
                           ToPbAttributes(cache[p]))
         /\ nodes' = [nodes EXCEPT ![p] = LoadedEntryOf(k)]
    ELSE /\ entries' = Collected(i)
         /\ attrs' = CollectedAttrs(i)
         /\ nodes' = nodes

\* --------------------------------------------------------------- Dir.Link
\* the nodes a Link request may name as its source: the file nodes, and a
\* node that is not a *File (the directory /d)
DirNode == <<"/", "d">>
OldNodes == DOMAIN nodes \cup {DirNode}

\* lines 31-36: what Link does with its source node after the read-only
\* check. A node that is not a *File is logged and leaves oldFile nil, which
\* line 36 dereferences; a *File has its entry loaded (lines 38-45).
OldOutcomes(src) ==
    IF src \notin DOMAIN nodes THEN {"notfile"} ELSE LoadOutcomes(src)

\* LinkBegin as it would be if the source were loaded before the read-only
\* check
LinkBeginLoadFirst(i) ==
    /\ CanStart(i)
    /\ \E src \in OldNodes, path \in NewPaths :
       \E how \in OldOutcomes(src) :
        LET k == opCount + 1
            base == [IdleLoc EXCEPT !.op = "Link", !.k = k, !.srcPath = src,
                                    !.newPath = path]
        IN  /\ opCount' = k
            /\ LoadInto(i, src, k, how)
            /\ CASE how = "notfile" -> Return(i, [base EXCEPT !.err = "PANIC"])
                 [] how = "error" -> Return(i, [base EXCEPT !.err = "ELOAD"])
                 [] how = "nil" -> Return(i, [base EXCEPT !.err = "EIO"])
                 [] ReadOnlyMode -> Return(i, [base EXCEPT !.err = "EPERM"])
                 [] OTHER ->
                    /\ loc' = SetLoc(i, [base EXCEPT !.oldEntry = nodes'[src]])
                    /\ pc' = SetPc(i, "LinkStamp")
    /\ UNCHANGED <<sched, option, remote, cache, inflight, randCount,
                   linkCalls, written, symlinked>>

\* lines 25-45: read-only check, type assertion of the source node, load of
\* the source node's entry. The nil dereference of line 36 ends the handler
\* with a panic, recorded as the result "PANIC".
LinkBegin(i) ==
    /\ CanStart(i)
    /\ \E src \in OldNodes, path \in NewPaths :
       \E how \in (IF ReadOnlyMode THEN {"none"} ELSE OldOutcomes(src)) :
        LET k == opCount + 1
            base == [IdleLoc EXCEPT !.op = "Link", !.k = k, !.srcPath = src,
                                    !.newPath = path]
        IN  /\ opCount' = k
            /\ LoadInto(i, src, k, how)
            /\ CASE how = "none" -> Return(i, [base EXCEPT !.err = "EPERM"])
                 [] how = "notfile" -> Return(i, [base EXCEPT !.err = "PANIC"])
                 [] how = "error" -> Return(i, [base EXCEPT !.err = "ELOAD"])
                 [] how = "nil" -> Return(i, [base EXCEPT !.err = "EIO"])
                 [] OTHER ->
                    /\ loc' = SetLoc(i, [base EXCEPT !.oldEntry = nodes'[src]])
                    /\ pc' = SetPc(i, "LinkStamp")
    /\ UNCHANGED <<sched, option, remote, cache, inflight, randCount,
                   linkCalls, written, symlinked>>

\* LinkStamp as it would be if every Link assigned a new HardLinkId
LinkStampAlways(i) ==
    /\ pc[i] = "LinkStamp"
    /\ pc' = SetPc(i, "LinkAssign")
    /\ UNCHANGED <<sched, option, nodes, entries, attrs, remote, cache, loc,
                   inflight, opCount, randCount, linkCalls, written,
                   symlinked>>

\* line 48: the test len(oldEntry.HardLinkId) == 0. The handlers do not
\* synchronise on the source node's entry, so another handler can act
\* between the test and the assignments it guards.
LinkStamp(i) ==
    /\ pc[i] = "LinkStamp"
    /\ pc' = SetPc(i, IF Len(entries[loc[i].oldEntry].HardLinkId) = 0
                      THEN "LinkAssign" ELSE "LinkIncr")
    /\ UNCHANGED <<sched, option, nodes, entries, attrs, remote, cache, loc,
                   inflight, opCount, randCount, linkCalls, written,
                   symlinked>>

\* lines 49-50: the entry gets a fresh HardLinkId and counter 1
LinkAssign(i) ==
    /\ pc[i] = "LinkAssign"
    /\ entries' = [entries EXCEPT ![loc[i].oldEntry] =
            [@ EXCEPT !.HardLinkId = NewHardLinkId(randCount + 1),
                      !.HardLinkCounter = 1]]
    /\ randCount' = randCount + 1
    /\ pc' = SetPc(i, "LinkIncr")
    /\ UNCHANGED <<sched, option, nodes, attrs, remote, cache, loc, inflight,
                   opCount, linkCalls, written, symlinked>>

\* line 52, oldEntry.HardLinkCounter++: the read of the counter
LinkIncr(i) ==
    /\ pc[i] = "LinkIncr"
    /\ loc' = SetLoc(i, [loc[i] EXCEPT !.counter =
                            entries[loc[i].oldEntry].HardLinkCounter])
    /\ pc' = SetPc(i, "LinkIncrStore")
    /\ UNCHANGED <<sched, option, nodes, entries, attrs, remote, cache,
                   inflight, opCount, randCount, linkCalls, written,
                   symlinked>>

\* line 52, oldEntry.HardLinkCounter++: the write of the counter read + 1
LinkIncrStore(i) ==
    /\ pc[i] = "LinkIncrStore"
    /\ entries' = [entries EXCEPT ![loc[i].oldEntry].HardLinkCounter =
                        loc[i].counter + 1]
    /\ LET id == entries[loc[i].oldEntry].HardLinkId
       IN  linkCalls' = Alloc(linkCalls, id,
                (IF id \in DOMAIN linkCalls THEN linkCalls[id] ELSE 0) + 1)
    /\ pc' = SetPc(i, "LinkBuild")
    /\ UNCHANGED <<sched, option, nodes, attrs, remote, cache, loc, inflight,
                   opCount, randCount, written, symlinked>>

\* LinkNewEntry as it would be if the new entry were built without the
\* source's Chunks and counter
LinkNewEntryBare(old, name) ==
    [Name |-> name, IsDirectory |-> FALSE,
     Attributes |-> old.Attributes, Chunks |-> <<>>,
     Extended |-> old.Extended, HardLinkId |-> old.HardLinkId,
     HardLinkCounter |-> 1]

\* lines 62-70: the create request's entry shares the source entry's
\* Attributes pointer and copies its other fields
LinkNewEntry(old, name) ==
    [Name |-> name, IsDirectory |-> FALSE,
     Attributes |-> old.Attributes, Chunks |-> old.Chunks,
     Extended |-> old.Extended, HardLinkId |-> old.HardLinkId,
     HardLinkCounter |-> old.HardLinkCounter]

\* lines 53-72: the two requests are built
LinkBuild(i) ==
    /\ pc[i] = "LinkBuild"
    /\ LET e == ReqEntryOf(loc[i].k)
       IN  /\ entries' = Alloc(entries, e,
                LinkNewEntry(entries[loc[i].oldEntry], loc[i].newPath[2]))
           /\ loc' = SetLoc(i, [loc[i] EXCEPT !.reqEntry = e])
    /\ pc' = SetPc(i, "LinkMapOut")
    /\ UNCHANGED <<sched, option, nodes, attrs, remote, cache, inflight,
                   opCount, randCount, linkCalls, written, symlinked>>

\* line 77
LinkMapOut(i) ==
    /\ pc[i] = "LinkMapOut"
    /\ attrs' = mapPbIdFromLocalToFiler(attrs, loc[i].reqEntry)
    /\ loc' = SetLoc(i, [loc[i] EXCEPT !.idsBefore =
            <<attrs[entries[loc[i].reqEntry].Attributes].Uid,
              attrs[entries[loc[i].reqEntry].Attributes].Gid>>])
    /\ pc' = SetPc(i, "LinkUpdate")
    /\ UNCHANGED <<sched, option, nodes, entries, remote, cache, inflight,
                   opCount, randCount, linkCalls, written, symlinked>>

\* line 80: the UpdateEntry call of the source entry leaves
LinkUpdateSend(i) ==
    /\ pc[i] = "LinkUpdate"
    /\ Send(i, "update", loc[i].srcPath[1], loc[i].oldEntry)
    /\ loc' = SetLoc(i, [loc[i] EXCEPT !.remoteCalls = @ + 1])
    /\ pc' = SetPc(i, "LinkUpdateWait")
    /\ UNCHANGED <<sched, option, nodes, entries, attrs, remote, cache, opCount,
                   randCount, linkCalls, written, symlinked>>

\* line 80: the UpdateEntry call succeeded
LinkUpdateOk(i) ==
    /\ pc[i] = "LinkUpdateWait"
    /\ FilerAccepts(i, TRUE)
    /\ remote' = FilerStore(i)
    /\ inflight' = Answered(i)
    /\ loc' = SetLoc(i, [loc[i] EXCEPT !.acked = @ \cup {loc[i].srcPath}])
    /\ pc' = SetPc(i, "LinkCacheUpdate")
    /\ UNCHANGED <<sched, option, nodes, entries, attrs, cache, opCount,
                   randCount, linkCalls, written, symlinked>>

\* LinkUpdateFail as it would be if the callback ignored the UpdateEntry
\* error and went on to the CreateEntry call
LinkUpdateFailContinuing(i) ==
    /\ pc[i] = "LinkUpdateWait"
    /\ \E ok \in BOOLEAN : ~FilerAccepts(i, ok)
    /\ inflight' = Answered(i)
    /\ pc' = SetPc(i, "LinkCreate")
    /\ UNCHANGED <<sched, option, nodes, entries, attrs, remote, cache, loc,
                   opCount, randCount, linkCalls, written, symlinked>>

\* LinkUpdateFail as it would be if the inward translation ran on the
\* success path only
LinkUpdateFailUntranslated(i) ==
    /\ pc[i] = "LinkUpdateWait"
    /\ \E ok \in BOOLEAN : ~FilerAccepts(i, ok)
    /\ inflight' = Answered(i)
    /\ Return(i, [loc[i] EXCEPT !.err = "EIO"])
    /\ UNCHANGED <<sched, option, nodes, entries, attrs, remote, cache,
                   opCount, randCount, linkCalls, written, symlinked>>

\* lines 80-83 and 95-97: the UpdateEntry call failed; the deferred inward
\* translation runs and Link returns EIO
LinkUpdateFail(i) ==
    /\ pc[i] = "LinkUpdateWait"
    /\ \E ok \in BOOLEAN : ~FilerAccepts(i, ok)
    /\ inflight' = Answered(i)
    /\ attrs' = mapPbIdFromFilerToLocal(attrs, loc[i].reqEntry)
    /\ Return(i, [loc[i] EXCEPT !.err = "EIO"])
    /\ UNCHANGED <<sched, option, nodes, entries, remote, cache, opCount,
                   randCount, linkCalls, written, symlinked>>

\* LinkCacheUpdate as it would be if the update were not mirrored
LinkCacheUpdateSkipped(i) ==
    /\ pc[i] = "LinkCacheUpdate"
    /\ pc' = SetPc(i, "LinkCreate")
    /\ UNCHANGED <<sched, option, nodes, entries, attrs, remote, cache, loc,
                   inflight, opCount, randCount, linkCalls, written,
                   symlinked>>

\* line 84
LinkCacheUpdate(i) ==
    /\ pc[i] = "LinkCacheUpdate"
    /\ CacheWrite(i, loc[i].srcPath[1], loc[i].oldEntry)
    /\ pc' = SetPc(i, "LinkCreate")
    /\ UNCHANGED <<sched, option, nodes, entries, attrs, remote, inflight,
                   opCount, randCount, linkCalls, symlinked>>

\* line 86: the CreateEntry call of the new entry leaves
LinkCreateSend(i) ==
    /\ pc[i] = "LinkCreate"
    /\ Send(i, "create", loc[i].newPath[1], loc[i].reqEntry)
    /\ loc' = SetLoc(i, [loc[i] EXCEPT !.remoteCalls = @ + 1])
    /\ pc' = SetPc(i, "LinkCreateWait")
    /\ UNCHANGED <<sched, option, nodes, entries, attrs, remote, cache, opCount,
                   randCount, linkCalls, written, symlinked>>

\* line 86: the CreateEntry call succeeded
LinkCreateOk(i) ==
    /\ pc[i] = "LinkCreateWait"
    /\ FilerAccepts(i, TRUE)
    /\ remote' = FilerStore(i)
    /\ inflight' = Answered(i)
    /\ loc' = SetLoc(i, [loc[i] EXCEPT !.acked = @ \cup {loc[i].newPath}])
    /\ pc' = SetPc(i, "LinkCacheInsert")
    /\ UNCHANGED <<sched, option, nodes, entries, attrs, cache, opCount,
                   randCount, linkCalls, written, symlinked>>

\* LinkCreateFail as it would be if the cache insert of line 90 did not
\* depend on the CreateEntry result
LinkCreateFailInserting(i) ==
    /\ pc[i] = "LinkCreateWait"
    /\ \E ok \in BOOLEAN : ~FilerAccepts(i, ok)
    /\ inflight' = Answered(i)
    /\ attrs' = mapPbIdFromFilerToLocal(attrs, loc[i].reqEntry)
    /\ cache' = Alloc(cache, loc[i].newPath,
                      FromPbEntry(loc[i].newPath[1], loc[i].reqEntry))
    /\ Return(i, [loc[i] EXCEPT !.err = "EIO"])
    /\ UNCHANGED <<sched, option, nodes, entries, remote, opCount,
                   randCount, linkCalls, written, symlinked>>

\* lines 86-89 and 95-97: the CreateEntry call failed; the deferred inward
\* translation runs and Link returns EIO
LinkCreateFail(i) ==
    /\ pc[i] = "LinkCreateWait"
    /\ \E ok \in BOOLEAN : ~FilerAccepts(i, ok)
    /\ inflight' = Answered(i)
    /\ attrs' = mapPbIdFromFilerToLocal(attrs, loc[i].reqEntry)
    /\ Return(i, [loc[i] EXCEPT !.err = "EIO"])
    /\ UNCHANGED <<sched, option, nodes, entries, remote, cache, opCount,
                   randCount, linkCalls, written, symlinked>>

\* line 90
LinkCacheInsert(i) ==
    /\ pc[i] = "LinkCacheInsert"
    /\ CacheWrite(i, loc[i].newPath[1], loc[i].reqEntry)
    /\ pc' = SetPc(i, "LinkFinish")
    /\ UNCHANGED <<sched, option, nodes, entries, attrs, remote, inflight,
                   opCount, randCount, linkCalls, symlinked>>

\* lines 92-106: the callback returns nil, the deferred inward translation
\* runs; the new file node wraps the request's entry, which is resident, so
\* its maybeLoadEntry loads nothing
LinkFinish(i) ==
    /\ pc[i] = "LinkFinish"
    /\ attrs' = mapPbIdFromFilerToLocal(attrs, loc[i].reqEntry)
    /\ nodes' = Alloc(nodes, loc[i].newPath, loc[i].reqEntry)
    /\ Return(i, [loc[i] EXCEPT !.retNode = loc[i].reqEntry])
    /\ UNCHANGED <<sched, option, entries, remote, cache, inflight, opCount,
                   randCount, linkCalls, written, symlinked>>

\* ---------------------------------------------------------- File.Readlink
\* lines 156-171, on the node at some path
Readlink(i) ==
    /\ CanStart(i)
    /\ \E p \in DOMAIN nodes : \E how \in LoadOutcomes(p) :
        LET k == opCount + 1
            base == [IdleLoc EXCEPT !.op = "Readlink", !.k = k, !.srcPath = p]
        IN  /\ opCount' = k
            /\ LoadInto(i, p, k, how)
            /\ CASE how = "error" -> Return(i, [base EXCEPT !.err = "ELOAD"])
                 [] how = "nil" -> Return(i, [base EXCEPT !.err = "PANIC"])
                 [] OTHER ->
                    LET a == attrs'[entries'[nodes'[p]].Attributes]
                    IN  IF a.FileMode \cap ModeSymlink = {}
                        THEN Return(i, [base EXCEPT !.err = "EINVAL"])
                        ELSE Return(i, [base EXCEPT
                                          !.retTarget = a.SymlinkTarget])
    /\ UNCHANGED <<sched, option, remote, cache, inflight, randCount,
                   linkCalls, written, symlinked>>

\* ------------------------------------------------------------------- Init
\* the file at FirstPath: owner 1 and group 0 in the local space
FirstEntry ==
    [Name |-> FirstPath[2], IsDirectory |-> FALSE,
     Attributes |-> [Mtime |-> 0, Crtime |-> 0, FileMode |-> Mode0644,
                     Uid |-> 1, Gid |-> 0, SymlinkTarget |-> ""],
     Chunks |-> <<"chunk1">>, Extended |-> <<"xattr1">>,
     HardLinkId |-> NoHardLink, HardLinkCounter |-> 0]

\* The mount has one file, known to the filer (with the filer's identifiers)
\* and to the meta cache (with local ones); its node has not loaded its entry.
InitState ==
    /\ option \in {[ReadOnly |-> TRUE, Umask |-> {}]}
                    \cup [ReadOnly : {FALSE}, Umask : Umasks]
    /\ nodes = [p \in {FirstPath} |-> 0]
    /\ entries = [p \in {} |-> 0]
    /\ attrs = [p \in {} |-> 0]
    /\ remote = [p \in {FirstPath} |->
                    [FirstEntry EXCEPT
                        !.Attributes.Uid = UidLocalToFiler(@),
                        !.Attributes.Gid = GidLocalToFiler(@)]]
    /\ cache = [p \in {FirstPath} |-> AsCached(FirstPath, FirstEntry)]
    /\ pc = [i \in Procs |-> "idle"]
    /\ loc = [i \in Procs |-> IdleLoc]
    /\ inflight = [p \in {} |-> 0]
    /\ opCount = 0
    /\ randCount = 0
    /\ linkCalls = [p \in {} |-> 0]
    /\ written = {}
    /\ symlinked = [p \in {} |-> ""]

\* two handlers serve requests concurrently
Init ==
    /\ sched = [handlers |-> Procs, budget |-> MaxConcOps]
    /\ InitState

\* requests are served one at a time
InitSeq ==
    /\ sched = [handlers |-> {1}, budget |-> MaxOps]
    /\ InitState

Step(i) ==
    \/ SymlinkBegin(i)
    \/ SymlinkMapOut(i)
    \/ SymlinkCreateSend(i)
    \/ SymlinkCreateOk(i)
    \/ SymlinkCreateFail(i)
    \/ SymlinkCacheInsert(i)
    \/ SymlinkFinish(i)
    \/ LinkBegin(i)
    \/ LinkStamp(i)
    \/ LinkAssign(i)
    \/ LinkIncr(i)
    \/ LinkIncrStore(i)
    \/ LinkBuild(i)
    \/ LinkMapOut(i)
    \/ LinkUpdateSend(i)
    \/ LinkUpdateOk(i)
    \/ LinkUpdateFail(i)
    \/ LinkCacheUpdate(i)
    \/ LinkCreateSend(i)
    \/ LinkCreateOk(i)
    \/ LinkCreateFail(i)
    \/ LinkCacheInsert(i)
    \/ LinkFinish(i)
    \/ Readlink(i)

Next == \E i \in Procs : Step(i)

Spec == Init /\ [][Next]_vars

SpecSeq == InitSeq /\ [][Next]_vars

\* =================================================================== claims
\* handler i has returned from a request of kind op
Returned(i, op) == pc[i] = "idle" /\ loc[i].op = op

\* handler i has returned from a Link that succeeded
LinkSucceeded(i) == Returned(i, "Link") /\ loc[i].err = "nil"

\* C1: after a successful Link the entries stored for the source name and
\* for the new name, in the filer and in the meta cache, carry the same
\* non-empty HardLinkId and the same HardLinkCounter, and the same
\* Attributes, Chunks and Extended; they differ in name and directory only.
C1_LinkTwins ==
    \A i \in Procs : LinkSucceeded(i) =>
        LET src == loc[i].srcPath
            new == loc[i].newPath
        IN  /\ src \in DOMAIN remote /\ new \in DOMAIN remote
            /\ src \in DOMAIN cache /\ new \in DOMAIN cache
            /\ remote[src].HardLinkId # NoHardLink
            /\ remote[new] = [remote[src] EXCEPT !.Name = new[2]]
            /\ remote[src].Name = src[2]
            /\ cache[new] = [cache[src] EXCEPT !.FullPath = new]
            /\ cache[src].FullPath = src
            /\ cache[src].HardLinkId = remote[src].HardLinkId
            /\ cache[src].HardLinkCounter = remote[src].HardLinkCounter

\* a Link to a name in another directory has succeeded
C1_Witness ==
    \E i \in Procs : LinkSucceeded(i) /\ loc[i].newPath[1] # loc[i].srcPath[1]

\* C2: after a successful Link the counter carried by the original and the
\* new entry is 1 + the number of Link calls made on that identity group
\* (this call and failed calls included).
C2_CounterCountsLinks ==
    \A i \in Procs : LinkSucceeded(i) =>
        LET id == remote[loc[i].newPath].HardLinkId
        IN  /\ remote[loc[i].newPath].HardLinkCounter = 1 + linkCalls[id]
            /\ remote[loc[i].srcPath].HardLinkCounter = 1 + linkCalls[id]

\* no request is being served
Quiet == \A i \in Procs : pc[i] = "idle"

\* the names the filer holds with HardLinkId id
NamesOf(id) == {q \in DOMAIN remote : remote[q].HardLinkId = id}

\* C3: with no Link in flight, every stored entry with a non-empty
\* HardLinkId has a HardLinkCounter equal to the number of names the filer
\* holds with that HardLinkId.
C3_CounterCountsNames ==
    Quiet =>
        \A p \in DOMAIN remote :
            remote[p].HardLinkId # NoHardLink =>
                remote[p].HardLinkCounter =
                    Cardinality(NamesOf(remote[p].HardLinkId))

\* the positions where a remote call of the handler is pending
Waiting == {"LinkUpdateWait", "LinkCreateWait", "SymCreateWait"}

\* the cache entry at full path p changes in this step
CacheChanges(p) ==
    /\ p \in DOMAIN cache'
    /\ p \notin DOMAIN cache \/ cache'[p] # cache[p]

\* C4: within one Link or Symlink (requests served one at a time) the cache
\* entry of a path is written only by a handler whose remote call for that
\* path has returned success, and with the entry the filer then holds; no
\* step taken while a remote call is pending, its failure included, changes
\* the cache.
C4_CacheAfterRemote ==
    [][
        \A i \in Procs : pc'[i] # pc[i] \/ loc'[i] # loc[i] =>
            /\ \A p \in Paths : CacheChanges(p) =>
                    /\ pc[i] \notin Waiting
                    /\ p \in loc[i].acked
                    /\ p \in DOMAIN remote
                    /\ cache'[p] = AsCached(p, remote[p])
            /\ pc[i] \in Waiting => cache' = cache
            /\ DOMAIN cache \subseteq DOMAIN cache'
    ]_vars

\* a Link has mirrored its update into the cache and its create then failed
C4_Witness ==
    \E i \in Procs :
        /\ Returned(i, "Link") /\ loc[i].err = "EIO"
        /\ loc[i].acked = {loc[i].srcPath}
        /\ loc[i].cacheWrites = 1
        /\ loc[i].newPath \notin DOMAIN cache

\* C5: with read-only mode enabled, Link and Symlink return EPERM and no
\* node, make no remote call and write nothing into the cache: the filer and
\* the cache keep the first file's entry as the only one.
C5_ReadOnlyRejects ==
    option.ReadOnly =>
        /\ \A i \in Procs :
                /\ pc[i] = "idle"
                /\ loc[i].op \in {"Link", "Symlink"} =>
                        /\ loc[i].err = "EPERM"
                        /\ loc[i].retNode = 0
                        /\ loc[i].remoteCalls = 0
                        /\ loc[i].cacheWrites = 0
        /\ DOMAIN inflight = {}
        /\ written = {}
        /\ DOMAIN remote = {FirstPath}
        /\ remote[FirstPath].HardLinkId = NoHardLink
        /\ cache = [p \in {FirstPath} |-> AsCached(FirstPath, FirstEntry)]

\* in read-only mode a Link and then a Symlink have been refused
C5_Witness ==
    /\ option.ReadOnly
    /\ \E i \in Procs : Returned(i, "Symlink") /\ loc[i].k > 1

\* handler i has returned from a Link whose update of the existing entry
\* succeeded and whose create of the new entry failed
LinkHalfDone(i) ==
    /\ Returned(i, "Link")
    /\ loc[i].err = "EIO"
    /\ loc[i].acked = {loc[i].srcPath}

\* C6 as stated: after such a Link (to a name other than the source's own)
\* the cache entry of the existing name carries the new HardLinkId and
\* counter, and the cache has no entry for the new name.
C6_NewNameNotCached ==
    \A i \in Procs : LinkHalfDone(i) /\ loc[i].newPath # loc[i].srcPath =>
        /\ cache[loc[i].srcPath].HardLinkId # NoHardLink
        /\ cache[loc[i].srcPath].HardLinkId = remote[loc[i].srcPath].HardLinkId
        /\ cache[loc[i].srcPath].HardLinkCounter
                = remote[loc[i].srcPath].HardLinkCounter
        /\ loc[i].newPath \notin DOMAIN cache

\* C6, amended: when the create of the new entry fails after the update of
\* the existing entry succeeded, Link returns EIO and no node; the cache
\* entry of the existing name already carries the HardLinkId and counter the
\* filer accepted; the failing step changes neither the cache nor the filer
\* (no insert for the new name, no rollback), and the mirror of the update
\* is the only cache write of the Link.
C6_PartialFailure ==
    [][
        \A i \in Procs : pc[i] = "LinkCreateWait" /\ pc'[i] = "idle" =>
            LET src == loc[i].srcPath
                old == entries[loc[i].oldEntry]
            IN  /\ loc'[i].err = "EIO"
                /\ loc'[i].retNode = 0
                /\ cache' = cache
                /\ remote' = remote
                /\ loc'[i].cacheWrites = 1
                /\ src \in written
                /\ cache[src].HardLinkId # NoHardLink
                /\ cache[src].HardLinkId = old.HardLinkId
                /\ cache[src].HardLinkCounter = old.HardLinkCounter
                /\ remote[src].HardLinkId = old.HardLinkId
                /\ remote[src].HardLinkCounter = old.HardLinkCounter
    ]_vars

\* such a Link has returned, to a new name that another entry already had
C6_Witness ==
    \E i \in Procs :
        /\ LinkHalfDone(i)
        /\ loc[i].newPath # loc[i].srcPath
        /\ loc[i].newPath \in DOMAIN cache

\* the FuseAttributes of the entry of the node at full path p
NodeAttrs(p) == attrs[entries[nodes[p]].Attributes]

\* C7: Readlink on the node a Symlink returned gives exactly the target of
\* that Symlink and no error; Readlink on an entry whose file mode lacks the
\* symbolic-link bit gives EINVAL and no target.
C7_SymlinkReadlink ==
    \A i \in Procs : Returned(i, "Readlink") /\ nodes[loc[i].srcPath] # 0 =>
        LET p == loc[i].srcPath
        IN  /\ p \in DOMAIN symlinked =>
                    loc[i].err = "nil" /\ loc[i].retTarget = symlinked[p]
            /\ NodeAttrs(p).FileMode \cap ModeSymlink = {} =>
                    loc[i].err = "EINVAL" /\ loc[i].retTarget = ""

\* Readlink has returned the non-empty target of a symlink
C7_Witness ==
    \E i \in Procs :
        /\ Returned(i, "Readlink")
        /\ loc[i].srcPath \in DOMAIN symlinked
        /\ loc[i].retTarget = "/target/path"
        /\ option.Umask # {}

\* the owner and group identifiers of the entry e points to
IdsOf(e) == <<attrs[entries[e].Attributes].Uid, attrs[entries[e].Attributes].Gid>>

C9_CacheMirrorsFiler ==
    Quiet =>
        \A p \in written :
            /\ p \in DOMAIN remote
            /\ cache[p] = AsCached(p, remote[p])

\* C10: when the CreateEntry of a Symlink fails, the step returns EIO and a
\* node that wraps the request's entry, and leaves the cache as it was, the
\* Symlink having written nothing into it; when a remote call of a Link
\* fails, the step returns EIO and no node.
C10_FailureResults ==
    [][
        \A i \in Procs :
            /\ pc[i] = "SymCreateWait" /\ pc'[i] = "idle" =>
                    /\ loc'[i].err = "EIO"
                    /\ loc'[i].retNode # 0
                    /\ loc'[i].retNode = loc[i].reqEntry
                    /\ entries'[loc'[i].retNode].Name = loc[i].newPath[2]
                    /\ attrs'[entries'[loc'[i].retNode].Attributes].SymlinkTarget
                            = loc[i].target
                    /\ cache' = cache
                    /\ loc'[i].cacheWrites = 0
            /\ pc[i] \in {"LinkUpdateWait", "LinkCreateWait"} /\ pc'[i] = "idle" =>
                    /\ loc'[i].err = "EIO"
                    /\ loc'[i].retNode = 0
    ]_vars

\* a Symlink to a free name has failed at the filer and returned its node
C10_Witness ==
    \E i \in Procs :
        /\ Returned(i, "Symlink")
        /\ loc[i].err = "EIO"
        /\ loc[i].retNode # 0
        /\ loc[i].newPath \notin DOMAIN remote

\* handler i starts a Link on a file node in this step and returns at once
LinkRefused(i) ==
    /\ pc[i] = "idle" /\ pc'[i] = "idle"
    /\ loc'[i] # loc[i]
    /\ loc'[i].op = "Link"
    /\ loc'[i].srcPath \in DOMAIN nodes

IsHardLinkId(id) ==
    /\ Len(id) = RandomLen + 1
    /\ id[RandomLen + 1] = HARD_LINK_MARKER

\* C12 (requests served one at a time): the stamping step gives a source
\* without HardLinkId a 17-byte id ending in the marker, which no entry had
\* before, and counter 1; it leaves a non-empty id and its counter alone;
\* the increment raises the counter by exactly one and keeps the id; the
\* update request of a Link that assigned the id carries counter 2. No step
\* changes a non-empty HardLinkId of an in-memory entry, of a stored entry
\* or of a cached entry, and two entries with the same id belong to the same
\* identity group (in memory: the same Attributes; in the filer: the same
\* creation time).
C12_HardLinkIdStable ==
    [][
        /\ \A i \in Procs :
            LET old == entries[loc[i].oldEntry]
                new == entries'[loc[i].oldEntry]
            IN  /\ pc[i] = "LinkStamp" /\ pc'[i] # pc[i] =>
                    /\ new = old
                    /\ pc'[i] = "LinkAssign" <=> old.HardLinkId = NoHardLink
                    /\ pc'[i] = "LinkIncr" <=> old.HardLinkId # NoHardLink
                /\ pc[i] = "LinkAssign" /\ pc'[i] = "LinkIncr" =>
                    /\ old.HardLinkId = NoHardLink
                    /\ IsHardLinkId(new.HardLinkId)
                    /\ new.HardLinkCounter = 1
                    /\ \A e \in DOMAIN entries :
                            entries[e].HardLinkId # new.HardLinkId
                    /\ \A p \in DOMAIN remote :
                            remote[p].HardLinkId # new.HardLinkId
                /\ pc[i] = "LinkIncr" /\ pc'[i] = "LinkIncrStore" =>
                    new = old
                /\ pc[i] = "LinkIncrStore" /\ pc'[i] = "LinkBuild" =>
                    /\ new.HardLinkId = old.HardLinkId
                    /\ new.HardLinkCounter = old.HardLinkCounter + 1
                /\ pc[i] = "LinkUpdate" /\ pc'[i] = "LinkUpdateWait" =>
                    /\ inflight'[i].Entry.HardLinkId = old.HardLinkId
                    /\ inflight'[i].Entry.HardLinkCounter = old.HardLinkCounter
                    /\ linkCalls[old.HardLinkId] = 1 =>
                            inflight'[i].Entry.HardLinkCounter = 2
        /\ \A e \in DOMAIN entries \cap DOMAIN entries' :
                entries[e].HardLinkId # NoHardLink =>
                    entries'[e].HardLinkId = entries[e].HardLinkId
        /\ \A p \in DOMAIN remote :
                remote[p].HardLinkId # NoHardLink =>
                    remote'[p].HardLinkId = remote[p].HardLinkId
        /\ \A p \in DOMAIN cache :
                cache[p].HardLinkId # NoHardLink =>
                    cache'[p].HardLinkId = cache[p].HardLinkId
        /\ \A e, f \in DOMAIN entries' :
                /\ entries'[e].HardLinkId # NoHardLink
                /\ entries'[e].HardLinkId = entries'[f].HardLinkId
                => /\ entries'[e].Attributes = entries'[f].Attributes
                   /\ IsHardLinkId(entries'[e].HardLinkId)
        /\ \A p, q \in DOMAIN remote' :
                /\ remote'[p].HardLinkId # NoHardLink
                /\ remote'[p].HardLinkId = remote'[q].HardLinkId
                => /\ remote'[p].Attributes.Crtime = remote'[q].Attributes.Crtime
                   /\ IsHardLinkId(remote'[p].HardLinkId)
    ]_vars

\* the filer holds two identity groups with different ids, one of them
\* linked twice
C12_Witness ==
    \E p, q \in DOMAIN remote :
        /\ remote[p].HardLinkId # NoHardLink
        /\ remote[q].HardLinkId # NoHardLink
        /\ remote[p].HardLinkId # remote[q].HardLinkId
        /\ remote[p].HardLinkCounter = 3

\* C13: when the first two requests of a mount are Links on the same source
\* file, served concurrently, and both have succeeded, the result is that of
\* the two Links in some serial order: one HardLinkId was assigned, the
\* source and both new names carry it, the source's counter (in memory and
\* in the filer) is 3, and the new names carry 2 and 3.
C13_SerialOutcome ==
    /\ LinkSucceeded(1) /\ LinkSucceeded(2)
    /\ loc[1].k + loc[2].k = 3
    /\ loc[1].srcPath = loc[2].srcPath
    /\ loc[1].newPath # loc[2].newPath
    => LET src == loc[1].srcPath
           new1 == loc[1].newPath
           new2 == loc[2].newPath
       IN  /\ randCount = 1
           /\ remote[src].HardLinkId = NewHardLinkId(1)
           /\ remote[new1].HardLinkId = remote[src].HardLinkId
           /\ remote[new2].HardLinkId = remote[src].HardLinkId
           /\ entries[nodes[src]].HardLinkCounter = 3
           /\ remote[src].HardLinkCounter = 3
           /\ {remote[new1].HardLinkCounter, remote[new2].HardLinkCounter}
                  = {2, 3}

\* C14: in a Link the UpdateEntry call is the first remote call and leaves
\* before any cache write; when it fails the Link returns EIO having made
\* that one call and no cache write, and the filer and the cache are as
\* they were; the CreateEntry call leaves only when the update was
\* acknowledged and the cache holds the mirror of the updated source entry,
\* the only cache write so far.
C14_UpdateThenCreate ==
    [][
        \A i \in Procs :
            /\ pc[i] = "LinkUpdate" /\ pc'[i] # pc[i] =>
                    /\ pc'[i] = "LinkUpdateWait"
                    /\ loc[i].remoteCalls = 0
                    /\ loc[i].cacheWrites = 0
                    /\ loc[i].acked = {}
                    /\ inflight'[i].kind = "update"
                    /\ <<inflight'[i].Directory, inflight'[i].Entry.Name>>
                            = loc[i].srcPath
            /\ pc[i] = "LinkUpdateWait" /\ pc'[i] = "idle" =>
                    /\ loc'[i].err = "EIO"
                    /\ loc'[i].remoteCalls = 1
                    /\ loc'[i].cacheWrites = 0
                    /\ loc'[i].acked = {}
                    /\ i \notin DOMAIN inflight'
                    /\ cache' = cache /\ written' = written
                    /\ remote' = remote
            /\ pc'[i] = "LinkCreateWait" /\ pc[i] # pc'[i] =>
                    /\ pc[i] = "LinkCreate"
                    /\ inflight'[i].kind = "create"
                    /\ <<inflight'[i].Directory, inflight'[i].Entry.Name>>
                            = loc[i].newPath
                    /\ loc[i].remoteCalls = 1
                    /\ loc[i].acked = {loc[i].srcPath}
                    /\ loc[i].cacheWrites = 1
                    /\ loc[i].srcPath \in written
                    /\ cache[loc[i].srcPath]
                            = FromPbEntry(loc[i].srcPath[1], loc[i].oldEntry)
                    /\ cache[loc[i].srcPath]
                            = AsCached(loc[i].srcPath, remote[loc[i].srcPath])
    ]_vars

\* the update of a Link has failed, on a source whose update an earlier Link
\* had mirrored into the cache
C14_Witness ==
    \E i \in Procs :
        /\ Returned(i, "Link") /\ loc[i].err = "EIO"
        /\ loc[i].remoteCalls = 1
        /\ loc[i].cacheWrites = 0
        /\ loc[i].srcPath \in written
        /\ entries[nodes[loc[i].srcPath]].HardLinkCounter
                > remote[loc[i].srcPath].HardLinkCounter

\* the positions inside the remote-call block of Link and of Symlink, after
\* the outward translation
InBlock ==
    {"LinkUpdate", "LinkUpdateWait", "LinkCacheUpdate", "LinkCreate",
     "LinkCreateWait", "LinkCacheInsert", "LinkFinish",
     "SymCreate", "SymCreateWait", "SymCacheInsert", "SymFinish"}

\* the owner and group identifiers of the entry e points to, after the step
IdsAfter(e) ==
    <<attrs'[entries'[e].Attributes].Uid, attrs'[entries'[e].Attributes].Gid>>

\* C15 (requests served one at a time): every step that leaves the
\* remote-call block of a Link or a Symlink, after success or after the
\* failure of either call, returns the handler with the identifiers of the
\* request's entry, and in a Link of the source entry, at the local values
\* they had before the outward translation; inside the block they have the
\* filer's values, and no other step leaves the block.
C15_InwardOnEveryExit ==
    [][
        \A i \in Procs :
            LET req == loc[i].reqEntry
                old == loc[i].oldEntry
            IN  /\ pc[i] \in {"LinkMapOut", "SymMapOut"} /\ pc'[i] # pc[i] =>
                    /\ pc'[i] \in InBlock
                    /\ loc'[i].idsBefore = IdsOf(req)
                    /\ loc[i].op = "Link" => IdsOf(old) = IdsOf(req)
                    /\ IdsAfter(req) = <<UidLocalToFiler(IdsOf(req)[1]),
                                         GidLocalToFiler(IdsOf(req)[2])>>
                /\ pc[i] \in InBlock /\ pc'[i] \in InBlock =>
                    /\ IdsAfter(req) = IdsOf(req)
                    /\ IdsOf(req) = <<UidLocalToFiler(loc[i].idsBefore[1]),
                                      GidLocalToFiler(loc[i].idsBefore[2])>>
                /\ pc[i] \in InBlock /\ pc'[i] \notin InBlock =>
                    /\ pc'[i] = "idle"
                    /\ IdsAfter(req) = loc[i].idsBefore
                    /\ loc[i].op = "Link" => IdsAfter(old) = loc[i].idsBefore
                    /\ loc'[i].idsBefore = loc[i].idsBefore
    ]_vars

\* a Link whose create failed has returned, and its source entry has the
\* local identifiers again while the filer got the translated ones
C15_Witness ==
    \E i \in Procs :
        /\ Returned(i, "Link") /\ loc[i].err = "EIO"
        /\ loc[i].remoteCalls = 2
        /\ IdsOf(loc[i].oldEntry) = <<1, 0>>
        /\ remote[loc[i].srcPath].HardLinkId # NoHardLink
        /\ remote[loc[i].srcPath].Attributes.Uid = UidLocalToFiler(1)
        /\ UidLocalToFiler(1) # 1

\* the full paths the request of handler i has written into the cache
WrittenBy(i) ==
    IF loc[i].cacheWrites = 0 THEN {}
    ELSE IF loc[i].op = "Symlink" THEN {loc[i].newPath}
    ELSE IF loc[i].cacheWrites = 1 THEN {loc[i].srcPath}
    ELSE {loc[i].srcPath, loc[i].newPath}

\* C16: an entry a Link or a Symlink has written into the cache carries the
\* local owner and group identifiers, those the request's entry had before
\* the outward translation.
C16_CacheHasLocalIds ==
    \A i \in Procs : loc[i].op \in {"Link", "Symlink"} =>
        \A p \in WrittenBy(i) :
            <<cache[p].Attr.Uid, cache[p].Attr.Gid>> = loc[i].idsBefore

\* the filer's identifiers for the local pair ids
ToFiler(ids) == <<UidLocalToFiler(ids[1]), GidLocalToFiler(ids[2])>>

\* C17: every request in flight carries the local identifiers of its entry
\* translated once: the create request of a Symlink those of the Symlink
\* request; the update and the create request of a Link on the first file
\* or on one of its links (the entries created at time 0) those of the
\* first file.
C17_SentIdsTranslatedOnce ==
    \A i \in DOMAIN inflight :
        LET m == inflight[i]
            sent == <<m.Entry.Attributes.Uid, m.Entry.Attributes.Gid>>
        IN  IF loc[i].op = "Symlink"
            THEN sent = ToFiler(loc[i].idsBefore)
            ELSE m.Entry.Attributes.Crtime = FirstEntry.Attributes.Crtime =>
                    sent = ToFiler(<<FirstEntry.Attributes.Uid,
                                     FirstEntry.Attributes.Gid>>)

\* C18: the entry the filer has stored for a Symlink (whatever the target
\* and the umask) is no directory, has the mode 0777 plus the symbolic-link
\* bit less the umask bits, with the symbolic-link bit set, a non-empty
\* SymlinkTarget equal to the target of the request, no Chunks and no
\* HardLinkId; and the Symlink makes one remote call, a CreateEntry.
C18_SymlinkEntry ==
    \A i \in Procs : loc[i].op = "Symlink" =>
        /\ loc[i].remoteCalls <= 1
        /\ i \in DOMAIN inflight => inflight[i].kind = "create"
        /\ pc[i] = "idle" /\ loc[i].err # "EPERM" => loc[i].remoteCalls = 1
        /\ loc[i].newPath \in loc[i].acked =>
            LET e == remote[loc[i].newPath]
            IN  /\ e.IsDirectory = FALSE
                /\ e.Attributes.FileMode
                        = (ModePerm \cup ModeSymlink) \ option.Umask
                /\ ModeSymlink \subseteq e.Attributes.FileMode
                /\ e.Attributes.SymlinkTarget = loc[i].target
                /\ e.Attributes.SymlinkTarget # ""
                /\ e.Chunks = <<>>
                /\ e.HardLinkId = NoHardLink

\* C19: when no request is being served and a handler's last request was a
\* Link that returned an error, the entry the source node holds in memory
\* has the HardLinkId and the HardLinkCounter the filer holds for the
\* source's path.
C19_FailedLinkLeavesSource ==
    Quiet =>
        \A i \in Procs :
            /\ Returned(i, "Link")
            /\ loc[i].err # "nil"
            /\ loc[i].srcPath \in DOMAIN nodes
            /\ nodes[loc[i].srcPath] # 0
            => LET src == loc[i].srcPath
                   mem == entries[nodes[src]]
               IN  /\ mem.HardLinkId = remote[src].HardLinkId
                   /\ mem.HardLinkCounter = remote[src].HardLinkCounter

\* C20: a Link whose source node is not a file node returns an error code (it
\* neither succeeds nor panics), and has made no remote call and no cache
\* write.
C20_NotAFileRejected ==
    \A i \in Procs : Returned(i, "Link") /\ loc[i].srcPath = DirNode =>
        /\ loc[i].err \in {"EPERM", "EIO", "EINVAL", "ELOAD"}
        /\ loc[i].retNode = 0
        /\ loc[i].remoteCalls = 0
        /\ loc[i].cacheWrites = 0

====
